---- MODULE Spec2Model ----
(***************************************************************************)
(* A model of three parts of the design-patterns repository:               *)
(*   - the Iterator sample (List, ListIterator, ReverseListIterator and    *)
(*     the printEmployees loop),                                           *)
(*   - the Builder sample (Maze, Room, MazeGame as Director,               *)
(*     StandardMazeBuilder, CountingMazeBuilder), and                      *)
(*   - the Factory Method sample (MazeGame, BombedMazeGame).               *)
(* JavaScript semantics are kept where they decide a property: an array    *)
(* read outside its bounds yields undefined, a method with an empty body   *)
(* returns undefined and changes nothing, a property read on undefined     *)
(* throws a TypeError.                                                     *)
(***************************************************************************)
EXTENDS Integers, Sequences, FiniteSets, TLC

\* ------------------------------------------------------------------------
\* Bounds of the model
\* ------------------------------------------------------------------------
MaxLen == 2
MaxPos == 3
MaxMazes == 2
MaxRooms == 3
MaxDoors == 2
MaxWalls == 6
MaxCalls == 4
MaxCount == 7

\* The element values a list may hold, and the cursors a client may hold.
Elems == {"e1", "e2"}
CursorIds == {1, 2}

\* The room numbers a Director may pass to the builder.
RoomKeys == {1, 2}

\* JavaScript's undefined, and a thrown Error.
Undefined == "undefined"
Throw == "throw"

VARIABLES
  data,      \* List.data: the array of the one list
  iters,     \* per cursor: kind ("none" before construction) and _current
  pc,        \* per cursor: where printEmployees stands on it ("free": not in the loop)
  out,       \* per cursor: what the printEmployees loop has printed so far
  k,         \* per cursor: next() calls since the last first(), -1 if none or the list changed since
  fresh,     \* per cursor: constructed and neither used nor overtaken by an add() since
  ret,       \* the last observer call and what it returned
  n0,        \* per cursor: the list's count at the first() of the printEmployees loop running on a reverse cursor, else -1
  midAdd,    \* per cursor: an add() came while the printEmployees loop on it was mid-traversal (forward: below the count; reverse: at 0 or above)
  heap,      \* the Maze, Room, Wall and Door objects created so far
  _currentMaze,  \* StandardMazeBuilder._currentMaze
  mret,      \* the last call on a builder, a game or a maze object, and its outcome
  added,     \* the addRoom calls made so far: <<maze, room number, room>>
  _doors,    \* CountingMazeBuilder._doors
  _rooms,    \* CountingMazeBuilder._rooms
  chist,     \* the calls made on the CountingMazeBuilder since its construction
  game,      \* the class of the factory-method MazeGame object ("none" before construction)
  dcalls     \* the calls the most recent Director run made on its builder, in order

iterVars == <<data, iters, pc, out, k, fresh, ret, n0, midAdd>>
countVars == <<_doors, _rooms, chist>>
mazeVars == <<heap, _currentMaze, mret, added, _doors, _rooms, chist, game, dcalls>>
vars == <<data, iters, pc, out, k, fresh, ret, n0, midAdd,
          heap, _currentMaze, mret, added, _doors, _rooms, chist, game, dcalls>>

NoRet == [op |-> "none"]

\* ------------------------------------------------------------------------
\* class List.  d is the list's data array.
\* ------------------------------------------------------------------------
List_count(d) == Len(d)

\* this.data[index]: JavaScript yields undefined outside the array.
List_get(d, index) ==
  IF 0 <= index /\ index < Len(d) THEN d[index + 1] ELSE Undefined

List_add_front(d, x) == <<x>> \o d

List_add(d, x) == Append(d, x)

\* ------------------------------------------------------------------------
\* class ListIterator.  A method takes the store of cursor objects (its), the
\* object it is called on (c) and the data of the list the object refers to
\* (d).  first() and next() return the store; isDone() and currentItem()
\* return the store and the value.
\* ------------------------------------------------------------------------
ListIterator_new == [kind |-> "fwd", _current |-> 0]

ListIterator_first(its, c, d) == [its EXCEPT ![c]._current = 0]

ListIterator_next_skip(its, c, d) == [its EXCEPT ![c]._current = @ + 2]

ListIterator_next_static(its, c, d) ==
  [x \in DOMAIN its |-> [its[x] EXCEPT !._current = its[c]._current + 1]]

ListIterator_next(its, c, d) == [its EXCEPT ![c]._current = @ + 1]

ListIterator_isDone_last(its, c, d) ==
  [its |-> its, val |-> its[c]._current >= List_count(d) - 1]

ListIterator_isDone(its, c, d) ==
  [its |-> its, val |-> its[c]._current >= List_count(d)]

ListIterator_currentItem_pop(its, c, d) ==
  IF its[c]._current >= List_count(d) THEN [its |-> its, val |-> Throw]
  ELSE [its |-> [its EXCEPT ![c]._current = @ + 1],
        val |-> List_get(d, its[c]._current)]

ListIterator_currentItem(its, c, d) ==
  LET r == ListIterator_isDone(its, c, d) IN
    IF r.val THEN [its |-> r.its, val |-> Throw]
    ELSE [its |-> r.its, val |-> List_get(d, r.its[c]._current)]

\* ------------------------------------------------------------------------
\* class ReverseListIterator
\* ------------------------------------------------------------------------
ReverseListIterator_new == [kind |-> "rev", _current |-> 0]

ReverseListIterator_first_count(its, c, d) ==
  [its EXCEPT ![c]._current = List_count(d)]

ReverseListIterator_first_second(its, c, d) ==
  [its EXCEPT ![c]._current = List_count(d) - 2]

ReverseListIterator_first(its, c, d) ==
  [its EXCEPT ![c]._current = List_count(d) - 1]

ReverseListIterator_next_skip(its, c, d) == [its EXCEPT ![c]._current = @ - 2]

ReverseListIterator_next(its, c, d) == [its EXCEPT ![c]._current = @ - 1]

ReverseListIterator_isDone_zero(its, c, d) ==
  [its |-> its, val |-> its[c]._current <= 0]

ReverseListIterator_isDone(its, c, d) ==
  [its |-> its, val |-> its[c]._current < 0]

ReverseListIterator_currentItem_shifted(its, c, d) ==
  IF its[c]._current < 0 THEN [its |-> its, val |-> Throw]
  ELSE [its |-> its, val |-> List_get(d, its[c]._current + 1)]

ReverseListIterator_currentItem(its, c, d) ==
  LET r == ReverseListIterator_isDone(its, c, d) IN
    IF r.val THEN [its |-> r.its, val |-> Throw]
    ELSE [its |-> r.its, val |-> List_get(d, r.its[c]._current)]

\* List.createIterator(): return new ListIterator<T>(this)
List_createIterator == ListIterator_new

\* ------------------------------------------------------------------------
\* interface IIterator: dynamic dispatch on the cursor's class
\* ------------------------------------------------------------------------
first(its, c, d) ==
  IF its[c].kind = "fwd" THEN ListIterator_first(its, c, d)
  ELSE ReverseListIterator_first(its, c, d)

next(its, c, d) ==
  IF its[c].kind = "fwd" THEN ListIterator_next(its, c, d)
  ELSE ReverseListIterator_next(its, c, d)

isDone(its, c, d) ==
  IF its[c].kind = "fwd" THEN ListIterator_isDone(its, c, d)
  ELSE ReverseListIterator_isDone(its, c, d)

currentItem(its, c, d) ==
  IF its[c].kind = "fwd" THEN ListIterator_currentItem(its, c, d)
  ELSE ReverseListIterator_currentItem(its, c, d)

\* ------------------------------------------------------------------------
\* Initial state: an empty list (List's constructor), no cursor constructed.
\* ------------------------------------------------------------------------
IterInit ==
  /\ data = <<>>
  /\ iters = [c \in CursorIds |-> [kind |-> "none", _current |-> 0]]
  /\ pc = [c \in CursorIds |-> "free"]
  /\ out = [c \in CursorIds |-> <<>>]
  /\ k = [c \in CursorIds |-> -1]
  /\ fresh = [c \in CursorIds |-> FALSE]
  /\ ret = NoRet
  /\ n0 = [c \in CursorIds |-> -1]
  /\ midAdd = [c \in CursorIds |-> FALSE]

\* ------------------------------------------------------------------------
\* Client calls on the list
\* ------------------------------------------------------------------------
Add(x) ==
  /\ Len(data) < MaxLen
  /\ data' = List_add(data, x)
  /\ k' = [c \in CursorIds |-> -1]
  /\ fresh' = [c \in CursorIds |-> FALSE]
  /\ ret' = NoRet
  /\ midAdd' = [c \in CursorIds |->
                 IF /\ pc[c] \in {"test", "body"}
                    /\ IF iters[c].kind = "fwd"
                       THEN iters[c]._current < List_count(data)
                       ELSE iters[c]._current >= 0
                 THEN TRUE ELSE midAdd[c]]
  /\ UNCHANGED <<iters, pc, out, n0, mazeVars>>

Get(index) ==
  /\ ret' = [op |-> "get", index |-> index, val |-> List_get(data, index)]
  /\ UNCHANGED <<data, iters, pc, out, k, fresh, n0, midAdd, mazeVars>>

\* ------------------------------------------------------------------------
\* Construction of cursors
\* ------------------------------------------------------------------------
Construct(c, it) ==
  /\ iters[c].kind = "none"
  /\ iters' = [iters EXCEPT ![c] = it]
  /\ fresh' = [fresh EXCEPT ![c] = TRUE]
  /\ ret' = NoRet
  /\ UNCHANGED <<data, pc, out, k, n0, midAdd, mazeVars>>

NewListIterator(c) == Construct(c, ListIterator_new)

NewReverseListIterator(c) == Construct(c, ReverseListIterator_new)

CreateIterator(c) == Construct(c, List_createIterator)

\* ------------------------------------------------------------------------
\* Client calls on a cursor that no printEmployees loop is running on
\* ------------------------------------------------------------------------
InRange(its) ==
  \A c \in CursorIds : -MaxPos <= its[c]._current /\ its[c]._current <= MaxPos

First(c) ==
  /\ iters[c].kind # "none"
  /\ pc[c] = "free"
  /\ iters' = first(iters, c, data)
  /\ k' = [k EXCEPT ![c] = 0]
  /\ fresh' = [fresh EXCEPT ![c] = FALSE]
  /\ ret' = NoRet
  /\ UNCHANGED <<data, pc, out, n0, midAdd, mazeVars>>

Next(c) ==
  /\ iters[c].kind # "none"
  /\ pc[c] = "free"
  /\ InRange(next(iters, c, data))
  /\ iters' = next(iters, c, data)
  /\ k' = [k EXCEPT ![c] = IF k[c] >= 0 THEN k[c] + 1 ELSE -1]
  /\ fresh' = [fresh EXCEPT ![c] = FALSE]
  /\ ret' = NoRet
  /\ UNCHANGED <<data, pc, out, n0, midAdd, mazeVars>>

IsDone(c) ==
  /\ iters[c].kind # "none"
  /\ LET r == isDone(iters, c, data) IN
       /\ iters' = r.its
       /\ ret' = [op |-> "isDone", c |-> c, val |-> r.val]
  /\ UNCHANGED <<data, pc, out, k, fresh, n0, midAdd, mazeVars>>

CurrentItem(c) ==
  /\ iters[c].kind # "none"
  /\ LET r == currentItem(iters, c, data) IN
       /\ iters' = r.its
       /\ ret' = [op |-> "currentItem", c |-> c, val |-> r.val]
  /\ UNCHANGED <<data, pc, out, k, fresh, n0, midAdd, mazeVars>>

\* ------------------------------------------------------------------------
\* printEmployees(iterator):
\*   for(iterator.first(); !iterator.isDone(); iterator.next()) {
\*     iterator.currentItem().print()
\*   }
\* ------------------------------------------------------------------------
PrintFirst(c) ==
  /\ iters[c].kind # "none"
  /\ pc[c] = "free"
  /\ iters' = first(iters, c, data)
  /\ pc' = [pc EXCEPT ![c] = "test"]
  /\ out' = [out EXCEPT ![c] = <<>>]
  /\ k' = [k EXCEPT ![c] = 0]
  /\ fresh' = [fresh EXCEPT ![c] = FALSE]
  /\ ret' = NoRet
  /\ n0' = [n0 EXCEPT ![c] = IF iters[c].kind = "rev" THEN List_count(data) ELSE -1]
  /\ midAdd' = [midAdd EXCEPT ![c] = FALSE]
  /\ UNCHANGED <<data, mazeVars>>

PrintTest(c) ==
  /\ pc[c] = "test"
  /\ LET r == isDone(iters, c, data) IN
       /\ iters' = r.its
       /\ pc' = [pc EXCEPT ![c] = IF r.val THEN "done" ELSE "body"]
  /\ ret' = NoRet
  /\ UNCHANGED <<data, out, k, fresh, n0, midAdd, mazeVars>>

\* The body and the loop's update.  currentItem() may throw, and .print() on
\* undefined throws a TypeError: either ends the loop by an exception.
PrintBody(c) ==
  /\ pc[c] = "body"
  /\ ret' = NoRet
  /\ LET r == currentItem(iters, c, data) IN
       IF r.val \in {Throw, Undefined}
       THEN /\ iters' = r.its
            /\ pc' = [pc EXCEPT ![c] = "threw"]
            /\ UNCHANGED <<data, out, k, fresh, n0, midAdd, mazeVars>>
       ELSE /\ out' = [out EXCEPT ![c] = Append(out[c], r.val)]
            /\ iters' = next(r.its, c, data)
            /\ k' = [k EXCEPT ![c] = IF k[c] >= 0 THEN k[c] + 1 ELSE -1]
            /\ pc' = [pc EXCEPT ![c] = "test"]
            /\ UNCHANGED <<data, fresh, n0, midAdd, mazeVars>>

\* printEmployees has returned (or thrown): the cursor is the client's again.
PrintReturn(c) ==
  /\ pc[c] \in {"done", "threw"}
  /\ pc' = [pc EXCEPT ![c] = "free"]
  /\ out' = [out EXCEPT ![c] = <<>>]
  /\ k' = [k EXCEPT ![c] = -1]
  /\ ret' = NoRet
  /\ n0' = [n0 EXCEPT ![c] = -1]
  /\ midAdd' = [midAdd EXCEPT ![c] = FALSE]
  /\ UNCHANGED <<data, iters, fresh, mazeVars>>

IterStep ==
  \/ \E x \in Elems : Add(x)
  \/ \E i \in -1 .. MaxLen : Get(i)
  \/ \E c \in CursorIds :
       \/ NewListIterator(c)
       \/ NewReverseListIterator(c)
       \/ CreateIterator(c)
       \/ First(c)
       \/ Next(c)
       \/ IsDone(c)
       \/ CurrentItem(c)
       \/ PrintFirst(c)
       \/ PrintTest(c)
       \/ PrintBody(c)
       \/ PrintReturn(c)

\* The demo's use of the sample: cursors are constructed and handed to
\* printEmployees, whose for statement runs on to its end once entered.
LoopStep ==
  \/ \E x \in Elems : Add(x)
  \/ \E c \in CursorIds :
       \/ NewListIterator(c)
       \/ NewReverseListIterator(c)
       \/ PrintFirst(c)
       \/ PrintTest(c)
       \/ PrintBody(c)
       \/ PrintReturn(c)

\* ------------------------------------------------------------------------
\* The maze classes (creational/index.ts).  A reference is a class name and
\* the object's number among the objects of its class; undefined is NoRef.
\* A method takes the heap and returns the heap (and a value, if it has one).
\* ------------------------------------------------------------------------
Direction == {"NORTH", "SOUTH", "EAST", "WEST"}

Ref(cls, id) == [cls |-> cls, id |-> id]
NoRef == Ref("undefined", 0)

EmptyHeap == [mazes |-> 0, rooms |-> <<>>, walls |-> 0, bombedWalls |-> 0, doors |-> 0]

\* An object of class cls made by Room's constructor:
\* this._roomNumber = roomNo; this._sides = []
Room_constructor(hp, cls, roomNo) ==
  [hp  |-> [hp EXCEPT !.rooms =
              Append(@, [cls |-> cls, _roomNumber |-> roomNo, _sides |-> <<>>])],
   val |-> Ref(cls, Len(hp.rooms) + 1)]

\* new Room(roomNo)
Room_new(hp, roomNo) == Room_constructor(hp, "Room", roomNo)

\* new RoomWithBomb(roomNo): class RoomWithBomb extends Room {}
RoomWithBomb_new(hp, roomNo) == Room_constructor(hp, "RoomWithBomb", roomNo)

\* Room.setSide(direction, map): the body is empty.
Room_setSide(hp, room, direction, map) == hp

\* this._sides[direction] of a room: undefined where nothing was stored.
Room_side(hp, room, direction) ==
  IF direction \in DOMAIN hp.rooms[room.id]._sides
  THEN hp.rooms[room.id]._sides[direction]
  ELSE NoRef

\* new Wall(): the constructor's body is empty.
Wall_new(hp) ==
  [hp |-> [hp EXCEPT !.walls = @ + 1], val |-> Ref("Wall", hp.walls + 1)]

\* new BombedWall(): class BombedWall extends Wall {}
BombedWall_new(hp) ==
  [hp  |-> [hp EXCEPT !.bombedWalls = @ + 1],
   val |-> Ref("BombedWall", hp.bombedWalls + 1)]

\* A Door constructor that differs: the Door installs itself on room1.
Door_new_install(hp, r1, r2) ==
  LET d == Ref("Door", hp.doors + 1) IN
    [hp  |-> IF r1 = NoRef THEN [hp EXCEPT !.doors = @ + 1]
             ELSE [hp EXCEPT !.doors = @ + 1,
                             !.rooms[r1.id]._sides = [dir \in {"EAST"} |-> d]],
     val |-> d]

\* new Door(r1, r2): the constructor's body is empty.
Door_new(hp, r1, r2) ==
  [hp |-> [hp EXCEPT !.doors = @ + 1], val |-> Ref("Door", hp.doors + 1)]

\* new Maze(): the constructor's body is empty.
Maze_new(hp) ==
  [hp |-> [hp EXCEPT !.mazes = @ + 1], val |-> Ref("Maze", hp.mazes + 1)]

\* Maze.addRoom(room): the body is empty.
Maze_addRoom(hp, maze, room) == hp

\* Maze.roomNo(num): the body is empty, so the call returns undefined.
Maze_roomNo(hp, maze, num) == NoRef

\* ------------------------------------------------------------------------
\* class StandardMazeBuilder (creational/builder/builder.ts).  cur is
\* this._currentMaze.  A method returns the heap, whether it threw, and its
\* value.
\* ------------------------------------------------------------------------
Outcome(hp, threw, val) == [hp |-> hp, threw |-> threw, val |-> val]

\* buildMaze(): this._currentMaze = new Maze()
StandardMazeBuilder_buildMaze(hp) == Maze_new(hp)

StandardMazeBuilder_getMaze_copy(hp, cur) ==
  [hp |-> Maze_new(hp).hp, threw |-> FALSE, val |-> Maze_new(hp).val]

\* getMaze(): return this._currentMaze
StandardMazeBuilder_getMaze(hp, cur) == Outcome(hp, FALSE, cur)

\* buildRoom(n).  this._currentMaze.roomNo on undefined throws a TypeError.
\* The value is the Room created (undefined if none was).
StandardMazeBuilder_buildRoom(hp, cur, n) ==
  IF cur = NoRef THEN Outcome(hp, TRUE, NoRef)
  ELSE IF Maze_roomNo(hp, cur, n) # NoRef THEN Outcome(hp, FALSE, NoRef)
  ELSE
    LET r    == Room_new(hp, n)
        room == r.val
        h0   == Maze_addRoom(r.hp, cur, room)
        w1   == Wall_new(h0)
        h1   == Room_setSide(w1.hp, room, "NORTH", w1.val)
        w2   == Wall_new(h1)
        h2   == Room_setSide(w2.hp, room, "SOUTH", w2.val)
        w3   == Wall_new(h2)
        h3   == Room_setSide(w3.hp, room, "EAST", w3.val)
        w4   == Wall_new(h3)
        h4   == Room_setSide(w4.hp, room, "WEST", w4.val)
    IN Outcome(h4, FALSE, room)

\* commonWall(room1, room2): the body is empty, so the call returns undefined.
StandardMazeBuilder_commonWall(room1, room2) == Undefined

\* A buildDoor that differs: a missing room is passed over silently.
StandardMazeBuilder_buildDoor_silent(hp, cur, roomFrom, roomTo) ==
  IF cur = NoRef THEN Outcome(hp, TRUE, NoRef)
  ELSE LET dr == Door_new(hp, Maze_roomNo(hp, cur, roomFrom), Maze_roomNo(hp, cur, roomTo))
       IN Outcome(dr.hp, FALSE, dr.val)

\* buildDoor(roomFrom, roomTo).  The Door is created before room1.setSide is
\* looked up; on an undefined room1 that lookup throws a TypeError.  Both
\* setSide calls are made on room1.
StandardMazeBuilder_buildDoor(hp, cur, roomFrom, roomTo) ==
  IF cur = NoRef THEN Outcome(hp, TRUE, NoRef)
  ELSE
    LET room1 == Maze_roomNo(hp, cur, roomFrom)
        room2 == Maze_roomNo(hp, cur, roomTo)
        dr    == Door_new(hp, room1, room2)
    IN IF room1 = NoRef THEN Outcome(dr.hp, TRUE, NoRef)
       ELSE
         LET h1 == Room_setSide(dr.hp, room1,
                                StandardMazeBuilder_commonWall(room1, room2), dr.val)
             h2 == Room_setSide(h1, room1,
                                StandardMazeBuilder_commonWall(room2, room1), dr.val)
         IN Outcome(h2, FALSE, dr.val)

\* ------------------------------------------------------------------------
\* class CountingMazeBuilder (creational/builder/builder.ts).  b is the
\* builder object.
\* ------------------------------------------------------------------------
CountingMazeBuilder_new == [_doors |-> 0, _rooms |-> 0]

CountingMazeBuilder_buildMaze_reset(b) == CountingMazeBuilder_new

CountingMazeBuilder_buildMaze(b) == b

CountingMazeBuilder_buildRoom(b, room) == [b EXCEPT !._rooms = @ + 1]

CountingMazeBuilder_buildDoor(b, roomFrom, roomTo) == [b EXCEPT !._doors = @ + 1]

\* A getCount that differs: the pair the other way round.
CountingMazeBuilder_getCount_roomsFirst(b) == <<b._rooms, b._doors>>

\* getCount(): return [this._doors, this._rooms]
CountingMazeBuilder_getCount(b) == <<b._doors, b._rooms>>

\* getMaze(): the body is empty, so the call returns undefined.
CountingMazeBuilder_getMaze(b) == NoRef

\* ------------------------------------------------------------------------
\* interface IMazeBuilder, as the Director uses it.  wd is what a Director's
\* run works on: the class of its builder (cls), the heap (hp), the
\* StandardMazeBuilder's _currentMaze (cur), the CountingMazeBuilder object
\* (cb), whether a call has thrown (threw: the rest of the run is skipped),
\* the value returned last (val), the addRoom calls made (adds) and the
\* calls the run has made on the builder (trace).
\* ------------------------------------------------------------------------
Traced(wd, call) == [wd EXCEPT !.trace = Append(@, call)]

IMazeBuilder_buildMaze(wd) ==
  IF wd.threw THEN wd
  ELSE LET w == Traced(wd, <<"buildMaze">>) IN
    IF w.cls = "StandardMazeBuilder"
    THEN LET r == StandardMazeBuilder_buildMaze(w.hp) IN
           [w EXCEPT !.hp = r.hp, !.cur = r.val]
    ELSE [w EXCEPT !.cb = CountingMazeBuilder_buildMaze(w.cb)]

IMazeBuilder_buildRoom(wd, n) ==
  IF wd.threw THEN wd
  ELSE LET w == Traced(wd, <<"buildRoom", n>>) IN
    IF w.cls = "StandardMazeBuilder"
    THEN LET r == StandardMazeBuilder_buildRoom(w.hp, w.cur, n) IN
           [w EXCEPT !.hp = r.hp, !.threw = r.threw,
                     !.adds = IF r.val = NoRef THEN @
                              ELSE @ \cup {<<w.cur.id, n, r.val.id>>}]
    ELSE [w EXCEPT !.cb = CountingMazeBuilder_buildRoom(w.cb, n)]

IMazeBuilder_buildDoor(wd, n1, n2) ==
  IF wd.threw THEN wd
  ELSE LET w == Traced(wd, <<"buildDoor", n1, n2>>) IN
    IF w.cls = "StandardMazeBuilder"
    THEN LET r == StandardMazeBuilder_buildDoor(w.hp, w.cur, n1, n2) IN
           [w EXCEPT !.hp = r.hp, !.threw = r.threw]
    ELSE [w EXCEPT !.cb = CountingMazeBuilder_buildDoor(w.cb, n1, n2)]

IMazeBuilder_getMaze(wd) ==
  IF wd.threw THEN wd
  ELSE LET w == Traced(wd, <<"getMaze">>) IN
    IF w.cls = "StandardMazeBuilder"
    THEN [w EXCEPT !.val = StandardMazeBuilder_getMaze(w.hp, w.cur).val]
    ELSE [w EXCEPT !.val = CountingMazeBuilder_getMaze(w.cb)]

\* ------------------------------------------------------------------------
\* class MazeGame of the Builder sample: the Director.
\*   builder.buildMaze(); builder.buildRoom(1); builder.buildRoom(2);
\*   builder.buildDoor(1, 2); return builder.getMaze()
\* ------------------------------------------------------------------------
MazeGame_createMaze(wd) ==
  IMazeBuilder_getMaze(
    IMazeBuilder_buildDoor(
      IMazeBuilder_buildRoom(
        IMazeBuilder_buildRoom(
          IMazeBuilder_buildMaze(wd), 1), 2), 1, 2))

\* createComplexMaze(builder):
\*   builder.buildRoom(1); builder.buildRoom(1001); return builder.getMaze()
MazeGame_createComplexMaze(wd) ==
  IMazeBuilder_getMaze(
    IMazeBuilder_buildRoom(
      IMazeBuilder_buildRoom(wd, 1), 1001))

\* ------------------------------------------------------------------------
\* class MazeGame and class BombedMazeGame of the Factory Method sample
\* (creational/factory-method.ts).  g is the class of the game object.
\* ------------------------------------------------------------------------
MazeGame_maeMaze(hp) == Maze_new(hp)

MazeGame_makeRoom(hp, n) == Room_new(hp, n)

MazeGame_makeWall(hp) == Wall_new(hp)

MazeGame_makeDoor(hp, r1, r2) == Door_new(hp, r1, r2)

BombedMazeGame_makeWall(hp) == BombedWall_new(hp)

BombedMazeGame_makeRoom(hp, n) == RoomWithBomb_new(hp, n)

\* this.maeMaze(), this.makeRoom(n), this.makeWall(), this.makeDoor(r1, r2):
\* BombedMazeGame overrides makeWall and makeRoom and inherits the rest.
maeMaze(g, hp) == MazeGame_maeMaze(hp)

makeRoom(g, hp, n) ==
  IF g = "BombedMazeGame" THEN BombedMazeGame_makeRoom(hp, n)
  ELSE MazeGame_makeRoom(hp, n)

makeWall(g, hp) ==
  IF g = "BombedMazeGame" THEN BombedMazeGame_makeWall(hp)
  ELSE MazeGame_makeWall(hp)

makeDoor(g, hp, r1, r2) == MazeGame_makeDoor(hp, r1, r2)

\* MazeGame.createMaze() of the Factory Method sample.  The result holds the
\* heap, the maze returned (val) and the objects the run created.
FactoryMethod_createMaze(g, hp) ==
  LET mz  == maeMaze(g, hp)
      r1  == makeRoom(g, mz.hp, 1)
      r2  == makeRoom(g, r1.hp, 2)
      dr  == makeDoor(g, r2.hp, r1.val, r2.val)
      a1  == Maze_addRoom(dr.hp, mz.val, r1.val)
      a2  == Maze_addRoom(a1, mz.val, r2.val)
      w1  == makeWall(g, a2)
      s1  == Room_setSide(w1.hp, r1.val, "NORTH", w1.val)
      s2  == Room_setSide(s1, r1.val, "EAST", dr.val)
      w2  == makeWall(g, s2)
      s3  == Room_setSide(w2.hp, r1.val, "SOUTH", w2.val)
      w3  == makeWall(g, s3)
      s4  == Room_setSide(w3.hp, r1.val, "WEST", w3.val)
      w4  == makeWall(g, s4)
      s5  == Room_setSide(w4.hp, r2.val, "NORTH", w4.val)
      w5  == makeWall(g, s5)
      s6  == Room_setSide(w5.hp, r2.val, "EAST", w5.val)
      w6  == makeWall(g, s6)
      s7  == Room_setSide(w6.hp, r2.val, "SOUTH", w6.val)
      s8  == Room_setSide(s7, r2.val, "WEST", dr.val)
  IN [hp |-> s8, val |-> mz.val, r1 |-> r1.val, r2 |-> r2.val, door |-> dr.val]

\* ------------------------------------------------------------------------
\* Initial state: new StandardMazeBuilder(), whose constructor assigns
\* nothing; new CountingMazeBuilder(); no game object yet.
\* ------------------------------------------------------------------------
Result(op, a, b, threw, val) ==
  [op |-> op, a |-> a, b |-> b, threw |-> threw, val |-> val]

MazeInit ==
  /\ heap = EmptyHeap
  /\ _currentMaze = NoRef
  /\ mret = Result("none", 0, 0, FALSE, NoRef)
  /\ added = {}
  /\ _doors = CountingMazeBuilder_new._doors
  /\ _rooms = CountingMazeBuilder_new._rooms
  /\ chist = <<>>
  /\ game = "none"
  /\ dcalls = <<>>

\* ------------------------------------------------------------------------
\* Calls on the StandardMazeBuilder
\* ------------------------------------------------------------------------
BuildMaze ==
  /\ heap.mazes < MaxMazes
  /\ LET r == StandardMazeBuilder_buildMaze(heap) IN
       /\ heap' = r.hp
       /\ _currentMaze' = r.val
       /\ mret' = Result("buildMaze", 0, 0, FALSE, NoRef)
  /\ UNCHANGED <<added, countVars, game, dcalls, iterVars>>

BuildRoom(n) ==
  /\ Len(heap.rooms) < MaxRooms
  /\ LET r == StandardMazeBuilder_buildRoom(heap, _currentMaze, n) IN
       /\ heap' = r.hp
       /\ mret' = Result("buildRoom", n, 0, r.threw, r.val)
       /\ added' = IF r.val = NoRef THEN added
                   ELSE added \cup {<<_currentMaze.id, n, r.val.id>>}
  /\ UNCHANGED <<_currentMaze, countVars, game, dcalls, iterVars>>

BuildDoor(n1, n2) ==
  /\ heap.doors < MaxDoors
  /\ LET r == StandardMazeBuilder_buildDoor(heap, _currentMaze, n1, n2) IN
       /\ heap' = r.hp
       /\ mret' = Result("buildDoor", n1, n2, r.threw, r.val)
  /\ UNCHANGED <<_currentMaze, added, countVars, game, dcalls, iterVars>>

GetMaze ==
  /\ LET r == StandardMazeBuilder_getMaze(heap, _currentMaze) IN
       /\ heap' = r.hp
       /\ mret' = Result("getMaze", 0, 0, r.threw, r.val)
  /\ UNCHANGED <<_currentMaze, added, countVars, game, dcalls, iterVars>>

\* game.createMaze(standardMazeBuilder)
World(cls) ==
  [cls |-> cls, hp |-> heap, cur |-> _currentMaze,
   cb |-> [_doors |-> _doors, _rooms |-> _rooms],
   threw |-> FALSE, val |-> NoRef, adds |-> added, trace |-> <<>>]

CreateMaze ==
  /\ heap.mazes < MaxMazes
  /\ Len(heap.rooms) + 2 <= MaxRooms
  /\ heap.doors < MaxDoors
  /\ LET wd == MazeGame_createMaze(World("StandardMazeBuilder")) IN
       /\ heap' = wd.hp
       /\ _currentMaze' = wd.cur
       /\ added' = wd.adds
       /\ mret' = Result("createMaze", 0, 0, wd.threw, wd.val)
       /\ dcalls' = wd.trace
  /\ UNCHANGED <<countVars, game, iterVars>>

\* game.createComplexMaze(standardMazeBuilder)
CreateComplexMaze ==
  /\ Len(heap.rooms) + 2 <= MaxRooms
  /\ LET wd == MazeGame_createComplexMaze(World("StandardMazeBuilder")) IN
       /\ heap' = wd.hp
       /\ _currentMaze' = wd.cur
       /\ added' = wd.adds
       /\ mret' = Result("createComplexMaze", 0, 0, wd.threw, wd.val)
       /\ dcalls' = wd.trace
  /\ UNCHANGED <<countVars, game, iterVars>>

\* The rooms there are.
RoomRefs(hp) == {Ref(hp.rooms[i].cls, i) : i \in 1 .. Len(hp.rooms)}

\* The Walls and Doors a client can hand to setSide: the newest of each.
Edges(hp) ==
  {Ref("Wall", hp.walls) : x \in {y \in {1} : hp.walls > 0}}
    \cup {Ref("Door", hp.doors) : x \in {y \in {1} : hp.doors > 0}}

\* room.setSide(direction, map)
SetSide(room, direction, map) ==
  /\ heap' = Room_setSide(heap, room, direction, map)
  /\ mret' = Result("setSide", room.id, 0, FALSE, [dir |-> direction, map |-> map])
  /\ UNCHANGED <<_currentMaze, added, countVars, game, dcalls, iterVars>>

MazeStep ==
  \/ BuildMaze
  \/ \E n \in RoomKeys : BuildRoom(n)
  \/ \E n1, n2 \in RoomKeys : BuildDoor(n1, n2)
  \/ GetMaze
  \/ CreateMaze
  \/ CreateComplexMaze
  \/ \E room \in RoomRefs(heap), direction \in Direction, map \in Edges(heap) :
       SetSide(room, direction, map)

\* ------------------------------------------------------------------------
\* Calls on the CountingMazeBuilder.  chist keeps the first MaxCalls calls;
\* after more calls it is Forgotten.
\* ------------------------------------------------------------------------
Forgotten == <<"more">>

Record(h, calls) ==
  IF h = Forgotten \/ Len(h) + Len(calls) > MaxCalls THEN Forgotten ELSE h \o calls

Counting == [_doors |-> _doors, _rooms |-> _rooms]

CountBuildMaze ==
  /\ LET b == CountingMazeBuilder_buildMaze(Counting) IN
       /\ _doors' = b._doors
       /\ _rooms' = b._rooms
  /\ chist # Forgotten
  /\ chist' = Record(chist, << <<"buildMaze">> >>)
  /\ mret' = Result("buildMaze", 0, 0, FALSE, NoRef)
  /\ UNCHANGED <<heap, _currentMaze, added, game, dcalls, iterVars>>

CountBuildRoom(n) ==
  /\ _doors + _rooms < MaxCount
  /\ LET b == CountingMazeBuilder_buildRoom(Counting, n) IN
       /\ _doors' = b._doors
       /\ _rooms' = b._rooms
  /\ chist' = Record(chist, << <<"buildRoom", n>> >>)
  /\ mret' = Result("buildRoom", n, 0, FALSE, NoRef)
  /\ UNCHANGED <<heap, _currentMaze, added, game, dcalls, iterVars>>

CountBuildDoor(n1, n2) ==
  /\ _doors + _rooms < MaxCount
  /\ LET b == CountingMazeBuilder_buildDoor(Counting, n1, n2) IN
       /\ _doors' = b._doors
       /\ _rooms' = b._rooms
  /\ chist' = Record(chist, << <<"buildDoor", n1, n2>> >>)
  /\ mret' = Result("buildDoor", n1, n2, FALSE, NoRef)
  /\ UNCHANGED <<heap, _currentMaze, added, game, dcalls, iterVars>>

GetCount ==
  /\ mret' = Result("getCount", 0, 0, FALSE, CountingMazeBuilder_getCount(Counting))
  /\ UNCHANGED <<heap, _currentMaze, added, countVars, game, dcalls, iterVars>>

CountGetMaze ==
  /\ mret' = Result("getMaze", 0, 0, FALSE, CountingMazeBuilder_getMaze(Counting))
  /\ UNCHANGED <<heap, _currentMaze, added, countVars, game, dcalls, iterVars>>

\* game2.createMaze(countingMazeBuilder)
CountCreateMaze ==
  /\ _doors + _rooms + 3 <= MaxCount
  /\ LET wd == MazeGame_createMaze(World("CountingMazeBuilder")) IN
       /\ _doors' = wd.cb._doors
       /\ _rooms' = wd.cb._rooms
       /\ mret' = Result("createMaze", 0, 0, wd.threw, wd.val)
       /\ dcalls' = wd.trace
  /\ chist' = Record(chist, << <<"buildMaze">>, <<"buildRoom", 1>>,
                               <<"buildRoom", 2>>, <<"buildDoor", 1, 2>> >>)
  /\ UNCHANGED <<heap, _currentMaze, added, game, iterVars>>

CountStep ==
  \/ CountBuildMaze
  \/ \E n \in RoomKeys : CountBuildRoom(n)
  \/ \E n1, n2 \in RoomKeys : CountBuildDoor(n1, n2)
  \/ GetCount
  \/ CountGetMaze
  \/ CountCreateMaze

\* ------------------------------------------------------------------------
\* Calls on a game object of the Factory Method sample
\* ------------------------------------------------------------------------
Games == {"MazeGame", "BombedMazeGame"}

NewGame(g) ==
  /\ game = "none"
  /\ game' = g
  /\ mret' = Result("new", 0, 0, FALSE, NoRef)
  /\ UNCHANGED <<heap, _currentMaze, added, countVars, dcalls, iterVars>>

MakeMaze ==
  /\ game \in Games
  /\ heap.mazes < MaxMazes
  /\ LET r == maeMaze(game, heap) IN
       /\ heap' = r.hp
       /\ mret' = Result("maeMaze", 0, 0, FALSE, r.val)
  /\ UNCHANGED <<_currentMaze, added, countVars, game, dcalls, iterVars>>

MakeRoom(n) ==
  /\ game \in Games
  /\ Len(heap.rooms) < MaxRooms
  /\ LET r == makeRoom(game, heap, n) IN
       /\ heap' = r.hp
       /\ mret' = Result("makeRoom", n, 0, FALSE, r.val)
  /\ UNCHANGED <<_currentMaze, added, countVars, game, dcalls, iterVars>>

MakeWall ==
  /\ game \in Games
  /\ heap.walls + heap.bombedWalls < MaxWalls
  /\ LET r == makeWall(game, heap) IN
       /\ heap' = r.hp
       /\ mret' = Result("makeWall", 0, 0, FALSE, r.val)
  /\ UNCHANGED <<_currentMaze, added, countVars, game, dcalls, iterVars>>

MakeDoor(r1, r2) ==
  /\ game \in Games
  /\ heap.doors < MaxDoors
  /\ LET r == makeDoor(game, heap, r1, r2) IN
       /\ heap' = r.hp
       /\ mret' = Result("makeDoor", r1.id, r2.id, FALSE, r.val)
  /\ UNCHANGED <<_currentMaze, added, countVars, game, dcalls, iterVars>>

FactoryCreateMaze ==
  /\ game \in Games
  /\ heap.mazes < MaxMazes
  /\ Len(heap.rooms) + 2 <= MaxRooms
  /\ heap.doors < MaxDoors
  /\ heap.walls + heap.bombedWalls + 6 <= MaxWalls
  /\ LET r == FactoryMethod_createMaze(game, heap) IN
       /\ heap' = r.hp
       /\ added' = added \cup {<<r.val.id, 1, r.r1.id>>, <<r.val.id, 2, r.r2.id>>}
       /\ mret' = Result("createMaze", r.r1.id, r.r2.id, FALSE, r.val)
  /\ UNCHANGED <<_currentMaze, countVars, game, dcalls, iterVars>>

FactoryStep ==
  \/ \E g \in Games : NewGame(g)
  \/ MakeMaze
  \/ \E n \in RoomKeys : MakeRoom(n)
  \/ MakeWall
  \/ \E r1, r2 \in RoomRefs(heap) : MakeDoor(r1, r2)
  \/ FactoryCreateMaze

Init == IterInit /\ MazeInit

IteratorSpec == Init /\ [][IterStep]_vars

LoopSpec ==
  /\ Init
  /\ [][LoopStep]_vars
  /\ \A c \in CursorIds : WF_vars(PrintTest(c)) /\ WF_vars(PrintBody(c))

MazeSpec == Init /\ [][MazeStep]_vars

CountingSpec == Init /\ [][CountStep]_vars

FactorySpec == Init /\ [][FactoryStep]_vars

\* ------------------------------------------------------------------------
\* Properties of the Iterator sample
\* ------------------------------------------------------------------------
Reverse(s) == [i \in 1 .. Len(s) |-> s[Len(s) + 1 - i]]

\* The cursor the last observer call was made on.
Called(op) == ret.op = op

\* C1: on a list not changed since first(), a forward cursor that was reset
\* by first() and advanced by next() exactly i times, 0 <= i < count, returns
\* the element at index i from currentItem().
C1_ForwardIndex ==
  (Called("currentItem") /\ iters[ret.c].kind = "fwd"
     /\ 0 <= k[ret.c] /\ k[ret.c] < List_count(data))
    => ret.val = data[k[ret.c] + 1]

C1_Witness ==
  /\ Called("currentItem") /\ iters[ret.c].kind = "fwd"
  /\ k[ret.c] = 1 /\ List_count(data) = 2 /\ data[1] # data[2]
  /\ ret.val = data[2]

\* C2: on a list not changed since first(), a reverse cursor that was reset
\* by first() and advanced by next() exactly i times, 0 <= i < count, returns
\* the element at index count-1-i from currentItem().
C2_ReverseIndex ==
  (Called("currentItem") /\ iters[ret.c].kind = "rev"
     /\ 0 <= k[ret.c] /\ k[ret.c] < List_count(data))
    => ret.val = data[List_count(data) - k[ret.c]]

C2_Witness ==
  /\ Called("currentItem") /\ iters[ret.c].kind = "rev"
  /\ k[ret.c] = 1 /\ List_count(data) = 2 /\ data[1] # data[2]
  /\ ret.val = data[1]

\* C3: a cursor that has just been constructed is in the state first() would
\* put it in: position 0 for a forward cursor, count-1 for a reverse cursor.
C3_FreshIsFirst ==
  \A c \in CursorIds : fresh[c] => iters = first(iters, c, data)

\* C4: currentItem() on a cursor whose position is outside [0, count) throws;
\* it returns neither undefined nor an element.
C4_ExhaustedThrows ==
  (Called("currentItem")
     /\ (iters[ret.c]._current < 0 \/ iters[ret.c]._current >= List_count(data)))
    => ret.val = Throw

\* C5: isDone() of a cursor that has just been constructed over an empty list
\* is true, for either kind of cursor.
C5_EmptyIsDone ==
  (Called("isDone") /\ fresh[ret.c] /\ List_count(data) = 0) => ret.val = TRUE

\* C6: on a list not changed since first(), after first() and k calls of
\* next(), isDone() is true exactly when k >= count, for either kind of cursor.
C6_DoneIffCount ==
  (Called("isDone") /\ k[ret.c] >= 0)
    => (ret.val <=> k[ret.c] >= List_count(data))

C6_Witness ==
  /\ Called("isDone") /\ iters[ret.c].kind = "rev"
  /\ List_count(data) = 1 /\ k[ret.c] > List_count(data)
  /\ ret.val = TRUE

\* C7: List.get(index) throws for index < 0 and for index >= count, and
\* returns the stored element for 0 <= index < count.
C7_GetChecksBounds ==
  Called("get") =>
    IF 0 <= ret.index /\ ret.index < List_count(data)
    THEN ret.val = data[ret.index + 1]
    ELSE ret.val = Throw

\* C8: the printEmployees loop run to its end on a forward cursor and on a
\* reverse cursor over the same list, not changed since either loop began,
\* prints sequences that are reverses of each other.
C8_OppositeOrder ==
  \A c1, c2 \in CursorIds :
    (/\ iters[c1].kind = "fwd" /\ pc[c1] = "done" /\ k[c1] >= 0
     /\ iters[c2].kind = "rev" /\ pc[c2] = "done" /\ k[c2] >= 0)
      => out[c1] = Reverse(out[c2])

C8_Witness ==
  \E c1, c2 \in CursorIds :
    /\ iters[c1].kind = "fwd" /\ pc[c1] = "done" /\ k[c1] >= 0
    /\ iters[c2].kind = "rev" /\ pc[c2] = "done" /\ k[c2] >= 0
    /\ Len(out[c1]) = 2 /\ out[c1][1] # out[c1][2]
    /\ out[c2] = <<out[c1][2], out[c1][1]>>

\* What a cursor of the given kind prints when it alone traverses the list.
Alone(kind, d) == IF kind = "fwd" THEN d ELSE Reverse(d)

\* C9: cursors over one list do not interfere: a step changes at most one
\* cursor, a step that changes a cursor leaves the list as it was, and a
\* loop that ran to its end over an unchanged list, whatever was done with
\* the other cursors meanwhile, printed what it prints when run alone.
C9_Independent ==
  [][/\ \A c1, c2 \in CursorIds :
          c1 # c2 => (iters'[c1] = iters[c1] \/ iters'[c2] = iters[c2])
     /\ iters' # iters => data' = data
     /\ \A c \in CursorIds :
          (pc'[c] = "done" /\ k'[c] >= 0) => out'[c] = Alone(iters'[c].kind, data')
    ]_vars

C9_Witness ==
  \E c1, c2 \in CursorIds :
    /\ c1 # c2
    /\ pc[c1] = "done" /\ k[c1] >= 0 /\ Len(out[c1]) = 2
    /\ pc[c2] = "body" /\ Len(out[c2]) = 1
    /\ iters[c1].kind = "fwd" /\ iters[c2].kind = "fwd"

\* ------------------------------------------------------------------------
\* Properties of the Builder sample
\* ------------------------------------------------------------------------
IsWall(ref) == ref.cls = "Wall"

\* C10: after buildMaze(), a buildRoom(n) that returned has put a room with
\* key n into the maze: roomNo(n) returns a Room numbered n, and its four
\* sides hold four different Walls.
C10_BuildRoomInserts ==
  (mret.op = "buildRoom" /\ ~mret.threw) =>
    LET room == Maze_roomNo(heap, _currentMaze, mret.a) IN
      /\ room.cls = "Room"
      /\ heap.rooms[room.id]._roomNumber = mret.a
      /\ \A dir \in Direction : IsWall(Room_side(heap, room, dir))
      /\ \A d1, d2 \in Direction :
           d1 # d2 => Room_side(heap, room, d1) # Room_side(heap, room, d2)

\* ------------------------------------------------------------------------
\* Properties of the Builder sample, continued.  added holds one triple
\* <<maze, key, room>> for every addRoom(room) call made on a maze.
\* ------------------------------------------------------------------------
Added(maze, n) == {x[3] : x \in {y \in added : y[1] = maze /\ y[2] = n}}

Present(n) == Added(_currentMaze.id, n) # {}

\* C11: buildRoom(n) for a key n the maze already has is a no-op: no maze is
\* ever given a second Room for a key it has a Room for.
C11_RebuildIsNoOp ==
  \A x, y \in added : (x[1] = y[1] /\ x[2] = y[2]) => x[3] = y[3]

\* C12: buildDoor(a, b) on two present rooms a # b returns, and the Door it
\* made occupies a side of room a and a side of room b.
C12_DoorOnBothRooms ==
  (mret.op = "buildDoor" /\ mret.a # mret.b /\ Present(mret.a) /\ Present(mret.b)) =>
    /\ ~mret.threw
    /\ \A n \in {mret.a, mret.b} : \A id \in Added(_currentMaze.id, n) :
         \E dir \in Direction : Room_side(heap, Ref("Room", id), dir) = mret.val

DoorSides(hp, room) == {d \in Direction : Room_side(hp, room, d).cls = "Door"}

WallSides(hp, room) ==
  {d \in Direction : Room_side(hp, room, d).cls \in {"Wall", "BombedWall"}}

\* Rooms 1 and 2 of the maze have one Door side each, holding the same Door,
\* and three Wall sides each, holding six different Walls.
TwoRoomsOneDoor(hp, maze) ==
  LET r1 == Maze_roomNo(hp, maze, 1)
      r2 == Maze_roomNo(hp, maze, 2)
  IN /\ r1 # NoRef
     /\ r2 # NoRef
     /\ \A r \in {r1, r2} : /\ Cardinality(DoorSides(hp, r)) = 1
                            /\ Cardinality(WallSides(hp, r)) = 3
     /\ {Room_side(hp, r1, d) : d \in DoorSides(hp, r1)}
          = {Room_side(hp, r2, d) : d \in DoorSides(hp, r2)}
     /\ Cardinality({Room_side(hp, r1, d) : d \in WallSides(hp, r1)}
                    \cup {Room_side(hp, r2, d) : d \in WallSides(hp, r2)}) = 6

\* C14: createMaze(new StandardMazeBuilder()) returns a maze whose rooms 1
\* and 2 share one Door and have six different Walls on their other sides.
C14_BuilderPathMaze ==
  (mret.op = "createMaze" /\ game = "none") =>
    /\ ~mret.threw
    /\ mret.val # NoRef
    /\ TwoRoomsOneDoor(heap, mret.val)

\* C15: createMaze() of the factory-method Director returns a maze whose
\* room 1 has the Door on EAST and whose room 2 has the same Door on WEST,
\* one Door side per room and six different Walls on the other sides.
C15_FactoryPathMaze ==
  (mret.op = "createMaze" /\ game \in Games) =>
    LET r1 == Maze_roomNo(heap, mret.val, 1)
        r2 == Maze_roomNo(heap, mret.val, 2)
    IN /\ r1 # NoRef
       /\ r2 # NoRef
       /\ Room_side(heap, r1, "EAST").cls = "Door"
       /\ Room_side(heap, r2, "WEST") = Room_side(heap, r1, "EAST")
       /\ TwoRoomsOneDoor(heap, mret.val)

\* ------------------------------------------------------------------------
\* Properties of the CountingMazeBuilder
\* ------------------------------------------------------------------------
KeysBuilt(h) == {h[i][2] : i \in {j \in 1 .. Len(h) : h[j][1] = "buildRoom"}}

\* C16: the room counter equals the number of distinct keys passed to
\* buildRoom, not the number of buildRoom calls.
C16_CountsDistinctKeys ==
  chist # Forgotten => _rooms = Cardinality(KeysBuilt(chist))

TwoRoomsOneDoorCalls ==
  { << <<"buildMaze">>, <<"buildRoom", 1>>, <<"buildRoom", 2>>, <<"buildDoor", 1, 2>> >>,
    << <<"buildMaze">>, <<"buildRoom", 2>>, <<"buildRoom", 1>>, <<"buildDoor", 1, 2>> >> }

\* C17: on a new CountingMazeBuilder, buildMaze, buildRoom(1), buildRoom(2),
\* buildDoor(1, 2), and the same with the two buildRoom calls swapped, both
\* make getCount() return [doors, rooms] = [1, 2].
C17_CountIsOneDoorTwoRooms ==
  (chist \in TwoRoomsOneDoorCalls /\ mret.op = "getCount") => mret.val = <<1, 2>>

C17_Witness ==
  /\ chist = << <<"buildMaze">>, <<"buildRoom", 2>>, <<"buildRoom", 1>>, <<"buildDoor", 1, 2>> >>
  /\ mret.op = "getCount"
  /\ mret.val = <<1, 2>>

\* ------------------------------------------------------------------------
\* Properties of the Factory Method sample and of Maze
\* ------------------------------------------------------------------------
\* C18: BombedMazeGame.createMaze() returns the topology of
\* MazeGame.createMaze() with a RoomWithBomb for every room and a BombedWall
\* for every wall.
C18_BombedTopology ==
  (mret.op = "createMaze" /\ game = "BombedMazeGame") =>
    LET r1 == Maze_roomNo(heap, mret.val, 1)
        r2 == Maze_roomNo(heap, mret.val, 2)
    IN /\ r1.cls = "RoomWithBomb"
       /\ r2.cls = "RoomWithBomb"
       /\ Room_side(heap, r1, "EAST").cls = "Door"
       /\ Room_side(heap, r2, "WEST") = Room_side(heap, r1, "EAST")
       /\ \A r \in {r1, r2} : \A d \in Direction :
            Room_side(heap, r, d).cls \in {"Door", "BombedWall"}
       /\ Cardinality({Room_side(heap, r1, d) : d \in Direction}
                      \cup {Room_side(heap, r2, d) : d \in Direction}) = 7

\* C19: a room added to a maze under key k stays the room that roomNo(k)
\* returns on that maze.
C19_KeyStaysBound ==
  \A x \in added : Maze_roomNo(heap, Ref("Maze", x[1]), x[2]).id = x[3]

MakeCall ==
  \/ MakeMaze
  \/ \E n \in RoomKeys : MakeRoom(n)
  \/ MakeWall
  \/ \E r1, r2 \in RoomRefs(heap) : MakeDoor(r1, r2)

\* C20: maeMaze, makeRoom, makeWall and makeDoor only create a value: every
\* room there was keeps its sides, every maze gives the same room for every
\* key, and no addRoom is made.
C20_MakeOnlyCreates ==
  [][MakeCall =>
       /\ \A i \in 1 .. Len(heap.rooms) : heap'.rooms[i] = heap.rooms[i]
       /\ \A m \in 1 .. heap.mazes : \A n \in RoomKeys :
            Maze_roomNo(heap', Ref("Maze", m), n) = Maze_roomNo(heap, Ref("Maze", m), n)
       /\ added' = added]_vars

C20_Witness ==
  /\ mret.op = "makeDoor"
  /\ mret.a # mret.b
  /\ heap.mazes > 0
  /\ \A i \in {mret.a, mret.b} : heap.rooms[i]._sides = <<>>

\* ------------------------------------------------------------------------
\* Properties of the Iterator sample under mutation of the list
\* ------------------------------------------------------------------------
\* C24: when add(x) comes while the loop on a forward cursor stands below the
\* count, the loop goes on to return every element of the list, x included,
\* and ends having returned the last appended element last.
C24_ForwardSeesAppended ==
  [][\A c \in CursorIds :
       (/\ iters[c].kind = "fwd" /\ midAdd[c]
        /\ pc[c] = "test" /\ pc'[c] = "done")
       => /\ out'[c] = data'
          /\ out'[c][Len(out'[c])] = data'[List_count(data')]]_vars

C24_Witness ==
  \E c \in CursorIds :
    /\ iters[c].kind = "fwd" /\ pc[c] = "done" /\ midAdd[c]
    /\ List_count(data) = 2 /\ data[1] # data[2]
    /\ out[c] = data

\* C25: a loop on a reverse cursor started by first() on a list of n elements
\* visits the indices n-1 down to 0 once each, whatever is added meanwhile:
\* no element appended after first() is returned.
C25_ReverseIgnoresAppended ==
  \A c \in CursorIds :
    (iters[c].kind = "rev" /\ pc[c] \in {"test", "body", "done"}) =>
      /\ -1 <= iters[c]._current /\ iters[c]._current < n0[c]
      /\ out[c] = Reverse(SubSeq(data, iters[c]._current + 2, n0[c]))
      /\ pc[c] = "body" => iters[c]._current >= 0
      /\ pc[c] = "done" => iters[c]._current = -1

C25_Witness ==
  \E c \in CursorIds :
    /\ iters[c].kind = "rev" /\ pc[c] = "done" /\ midAdd[c]
    /\ n0[c] = 1 /\ List_count(data) = 2 /\ data[1] # data[2]
    /\ out[c] = <<data[1]>>

\* C26: isDone() and currentItem() change neither the cursor nor the list,
\* and called again at once give the same outcome; a cursor changes only by
\* first() and next() (its construction apart), the list only by add().
C26_ObserversReadOnly ==
  [][/\ (ret'.op \in {"isDone", "currentItem"}) =>
          /\ iters' = iters
          /\ data' = data
          /\ (ret.op = ret'.op /\ ret.c = ret'.c) => ret'.val = ret.val
     /\ \A c \in CursorIds :
          /\ (pc[c] = "test" /\ pc'[c] # "test") => (iters' = iters /\ data' = data)
          /\ (iters'[c] # iters[c]) =>
               \/ iters[c].kind = "none"
               \/ First(c) \/ Next(c) \/ PrintFirst(c) \/ PrintBody(c)
     /\ (data' # data) => \E x \in Elems : Add(x)]_vars

C26_Witness ==
  /\ Called("currentItem")
  /\ iters[ret.c].kind = "fwd"
  /\ iters[ret.c]._current = 1
  /\ List_count(data) = 2
  /\ ret.val = data[2]

\* C27: the printEmployees loop on a list of n elements that is not changed
\* meanwhile ends after exactly n iterations, for both kinds of cursor, and
\* no currentItem() in it throws.
C27_LoopTerminates ==
  \A c \in CursorIds :
    /\ [](pc[c] # "threw")
    /\ []((pc[c] = "done" /\ k[c] >= 0) =>
             /\ k[c] = List_count(data)
             /\ Len(out[c]) = List_count(data))
    /\ (pc[c] \in {"test", "body"}) ~> (pc[c] = "done")

C27_Witness ==
  \E c \in CursorIds :
    /\ iters[c].kind = "rev" /\ pc[c] = "done"
    /\ k[c] = 2 /\ Len(out[c]) = 2 /\ List_count(data) = 2

\* C28: one add(x) on a forward cursor exhausted at position count makes
\* isDone() false and currentItem() return x, with no first(); a reverse
\* cursor that is exhausted stays so until first(), whatever is added.
C28_ExhaustionAfterAdd ==
  [][\A c \in CursorIds :
       /\ \A x \in Elems :
            (Add(x) /\ iters[c].kind = "fwd"
               /\ iters[c]._current = List_count(data)) =>
              /\ ~isDone(iters', c, data').val
              /\ currentItem(iters', c, data').val = x
       /\ (/\ iters[c].kind = "rev"
           /\ isDone(iters, c, data).val
           /\ ~isDone(iters', c, data').val) => (First(c) \/ PrintFirst(c))]_vars

C28_Witness ==
  \E c \in CursorIds :
    /\ iters[c].kind = "fwd" /\ pc[c] = "done"
    /\ Called("currentItem") /\ ret.c = c
    /\ List_count(data) = 2 /\ data[1] # data[2]
    /\ Len(out[c]) = 1
    /\ iters[c]._current = 1
    /\ ret.val = data[2]

\* ------------------------------------------------------------------------
\* Properties of the Builder sample: doors, the Director's protocol, setSide
\* ------------------------------------------------------------------------
\* The side-slots <<room, direction>> that hold Door number d.
DoorSlots(hp, d) ==
  {s \in (1 .. Len(hp.rooms)) \X Direction :
     Room_side(hp, Ref(hp.rooms[s[1]].cls, s[1]), s[2]) = Ref("Door", d)}

Symmetric(hp, d) ==
  /\ Cardinality(DoorSlots(hp, d)) = 2
  /\ Cardinality({s[1] : s \in DoorSlots(hp, d)}) = 2

Protocol(t) ==
  \A i \in 1 .. Len(t) :
    /\ t[i][1] = "buildRoom" => \E j \in 1 .. i - 1 : t[j][1] = "buildMaze"
    /\ t[i][1] = "buildDoor" =>
         /\ \E j \in 1 .. i - 1 : t[j][1] = "buildRoom" /\ t[j][2] = t[i][2]
         /\ \E j \in 1 .. i - 1 : t[j][1] = "buildRoom" /\ t[j][2] = t[i][3]
    /\ t[i][1] = "getMaze" => i = Len(t)

\* C22: a Director run calls buildMaze() before its first buildRoom,
\* buildDoor(a, b) only after buildRoom(a) and buildRoom(b), and getMaze()
\* last, and so does not fail on an unset _currentMaze.
C22_DirectorProtocol ==
  /\ Protocol(dcalls)
  /\ (mret.op \in {"createMaze", "createComplexMaze"} /\ mret.threw) =>
       \E i \in 1 .. Len(dcalls) : dcalls[i][1] = "buildMaze"

\* C23: after room.setSide(d, e) the room's side d is e.
C23_SetSideOverwrites ==
  (mret.op = "setSide") =>
    Room_side(heap, Ref(heap.rooms[mret.a].cls, mret.a), mret.val.dir) = mret.val.map

\* ------------------------------------------------------------------------
\* Properties of the builders' state
\* ------------------------------------------------------------------------
\* C29: buildMaze(), getCount() and getMaze() leave the counters alone, every
\* buildDoor adds one to _doors and nothing to _rooms whatever its
\* arguments, no call lowers a counter, and a createMaze run adds one door
\* and two rooms to what was counted before.
C29_CountersAccumulate ==
  [][/\ (CountBuildMaze \/ GetCount \/ CountGetMaze) =>
          (_doors' = _doors /\ _rooms' = _rooms)
     /\ \A n1, n2 \in RoomKeys :
          CountBuildDoor(n1, n2) => (_doors' = _doors + 1 /\ _rooms' = _rooms)
     /\ CountCreateMaze => (_doors' = _doors + 1 /\ _rooms' = _rooms + 2)
     /\ _doors' >= _doors
     /\ _rooms' >= _rooms]_vars

C29_Witness ==
  /\ mret.op = "createMaze"
  /\ chist = Forgotten
  /\ _doors = 2
  /\ _rooms = 4

\* C30: getMaze() returns _currentMaze and changes nothing, twice in a row
\* the same Maze; buildMaze() installs a Maze that did not exist before and
\* has no room; _currentMaze changes by buildMaze() alone.
C30_GetMazeIsCurrent ==
  [][/\ GetMaze =>
          /\ ~mret'.threw
          /\ mret'.val = _currentMaze
          /\ heap' = heap /\ _currentMaze' = _currentMaze /\ added' = added
          /\ (mret.op = "getMaze") => (mret'.val = mret.val)
     /\ BuildMaze =>
          /\ _currentMaze'.cls = "Maze"
          /\ _currentMaze'.id > heap.mazes
          /\ {x \in added' : x[1] = _currentMaze'.id} = {}
          /\ \A n \in RoomKeys : Maze_roomNo(heap', _currentMaze', n) = NoRef
     /\ (_currentMaze' # _currentMaze) => (BuildMaze \/ CreateMaze)]_vars

C30_Witness ==
  /\ mret.op = "getMaze"
  /\ mret.val = Ref("Maze", 2)
  /\ \E x \in added : x[1] = 1
  /\ \A x \in added : x[1] # 2

====
